---- MODULE Spec2Model ----
(***************************************************************************)
(* Reputation reprocessing (reputation/reprocess.go): the Orchestrator     *)
(* reprocessMessages, the Channel Scanner processChannel and the Progress  *)
(* Reporter sendPeriodicUpdates, as one state machine.                     *)
(*                                                                         *)
(* The specifications share the actions:                                   *)
(*   Spec          a whole run of reprocessMessages with its Reporter;     *)
(*   SpecScan      one call of processChannel over every message shape;    *)
(*   SpecPages     one call of processChannel over a longer history;       *)
(*   SpecReporter  sendPeriodicUpdates alone, long enough to reach the     *)
(*                 24-hour level;                                          *)
(*   SpecStats     the methods of reprocessStats, statement by statement.  *)
(* SpecPagesFair and SpecReporterFair add the scheduling liveness needs.   *)
(***************************************************************************)
EXTENDS Integers, Sequences, FiniteSets, TLC

\* ------------------------------------------------------------------ bounds
MaxUser == 2        \* user identifiers are 1..MaxUser; a mention may also be 0
MaxChannels == 2    \* channels of the guild
MaxID == 2          \* message identifiers of the channel are 1..MaxID (SpecScan)
RunMaxID == 1       \* message identifiers of each channel are 1..RunMaxID (Spec)
PagesMaxID == 3     \* message identifiers of the channel are 1..PagesMaxID (SpecPages)
PageLimit == 2      \* messages per fetched page (100 in the code)
MaxTicks == 17      \* ticks the Reporter takes in SpecReporter
RunTicks == 1       \* ticks the Reporter takes within a run (Spec)
MaxUpdates == 2     \* calls of Add and SetUsers (SpecStats)
MaxAddend == 1      \* the arguments of Add are in 0..MaxAddend (SpecStats)

\* ------------------------------------------------------- program constants
\* since: the cutoff of the scan (time.Now().AddDate(-5, 0, 0))
fiveYearsAgo == 1
\* discordgo.ChannelTypeGuildText
ChannelTypeGuildText == 0

\* updateIntervals of sendPeriodicUpdates, durations in seconds
updateIntervals ==
    << [duration |-> 10,    count |-> 5],
       [duration |-> 60,    count |-> 5],
       [duration |-> 3600,  count |-> 5],
       [duration |-> 86400, count |-> -1] >>

\* ------------------------------------------------------------ value spaces
Users == 1..MaxUser
Mentions == 0..MaxUser
\* parsed timestamps: before the cutoff, at the cutoff, after the cutoff
Times == {fiveYearsAgo - 1, fiveYearsAgo, fiveYearsAgo + 1}
ChannelTypes == {ChannelTypeGuildText, ChannelTypeGuildText + 1}

\* msg.Timestamp: a string that time parsing accepts or rejects
Timestamps ==
    {[valid |-> FALSE, time |-> 0]} \cup {[valid |-> TRUE, time |-> t] : t \in Times}

\* A message text, as the two patterns see it: the sequence of the places
\* where one of them matches, left to right, each with the number its
\* captured digits denote.
Tokens == [pat : {"giverep", "thanks"}, id : Mentions]
Contents == {<<>>} \cup {<<a>> : a \in Tokens} \cup {<<a, b>> : a \in Tokens, b \in Tokens}

Authors == [ID : Users, Bot : BOOLEAN]

\* discordgo.Message without its identifier: the fields the loop body reads
MsgBodies == [Timestamp : Timestamps, Author : Authors, Content : Contents]

\* The message bodies a whole run draws from (SpecScan draws from all of
\* MsgBodies): a human author, a timestamp that parses and is before or at the
\* cutoff, at most one match, of the explicit pattern; for a timestamp before
\* the cutoff, of which the loop body reads nothing else, one body only.
RunMsgBodies ==
    {b \in MsgBodies :
        /\ ~b.Author.Bot
        /\ b.Timestamp.valid /\ b.Timestamp.time <= fiveYearsAgo
        /\ Len(b.Content) <= 1
        /\ \A i \in 1..Len(b.Content) : b.Content[i].pat = "giverep"
        /\ b.Timestamp.time < fiveYearsAgo => (b.Content = <<>> /\ b.Author.ID = 1)}

\* The message bodies SpecPages draws from: one author and no match, with
\* every kind of timestamp, since paging reads nothing else of a message.
PageMsgBodies ==
    {b \in MsgBodies : b.Author = [ID |-> 1, Bot |-> FALSE] /\ b.Content = <<>>}

\* discordgo.Message with identifier id
Message(id, b) ==
    [ID |-> id, Timestamp |-> b.Timestamp, Author |-> b.Author, Content |-> b.Content]

NoMsg ==
    [ID |-> 0, Timestamp |-> [valid |-> FALSE, time |-> 0],
     Author |-> [ID |-> 0, Bot |-> FALSE], Content |-> <<>>]

\* ------------------------------------------------------------------- maps
\* A Go map[int64]int64 is a function on the set of its keys.
EmptyMap == [k \in {} |-> 0]

\* m[k] of a Go map: the zero value for a missing key
Lookup(m, k) == IF k \in DOMAIN m THEN m[k] ELSE 0

\* m[k] += n
MapAdd(m, k, n) ==
    [x \in DOMAIN m \cup {k} |-> IF x = k THEN Lookup(m, k) + n ELSE m[x]]

RECURSIVE SumOver(_, _)
SumOver(m, S) ==
    IF S = {} THEN 0
    ELSE LET k == CHOOSE x \in S : TRUE IN m[k] + SumOver(m, S \ {k})

\* the sum of a map's values
MapSum(m) == SumOver(m, DOMAIN m)

\* ---------------------------------------------------------------- patterns
\* pattern.FindStringSubmatch(content): the leftmost match; <<>> is Go's nil,
\* otherwise matches[1] (here the second element) is the captured identifier.
RECURSIVE FindStringSubmatch(_, _)
FindStringSubmatch(pat, content) ==
    IF content = <<>> THEN <<>>
    ELSE IF Head(content).pat = pat THEN <<pat, Head(content).id>>
    ELSE FindStringSubmatch(pat, Tail(content))

\* Before with its operands exchanged
BeforeSwapped(t, since) == since < t

\* msgTime.Before(since)
Before(t, since) == t < since

VARIABLES
    \* the caller's context and configuration
    ctxDone,        \* ctx.Done() is closed
    conf,           \* *models.ReputationConfig
    \* processChannel
    spc,            \* where processChannel is
    channelID,      \* its channelID argument
    processed,      \* processed
    chanChanges,    \* its local repChanges
    beforeID,       \* beforeID
    messages,       \* the identifiers of the fetched page, in the page's order
    msgIdx,         \* position of the range loop in messages
    msg,            \* the message the range loop inspected last
    scanErr,        \* the error processChannel returns
    inspected,      \* identifiers of the messages the range loop has taken up, in order
    \* reprocessMessages
    pc,             \* where reprocessMessages is
    channels,       \* gs.Channels
    chIdx,          \* position of the range loop in channels
    stats,          \* *reprocessStats
    repChanges,     \* the run-wide repChanges
    channelErrors,  \* channelErrors
    userErrors,     \* userErrors
    uniqueUsers,    \* uniqueUsers
    pending,        \* keys of repChanges the persistence loop has yet to visit
    stopChan,       \* stopChan is closed
    wg,             \* the counter of the WaitGroup
    retErr,         \* the error reprocessMessages returned ("none" before it returns)
    \* sendPeriodicUpdates
    rpc,                        \* where sendPeriodicUpdates is
    currentIntervalIdx,         \* currentIntervalIdx (0-based, as in the code)
    updatesAtCurrentInterval,   \* updatesAtCurrentInterval
    ticker,                     \* the duration of the running ticker
    snapshot,                   \* messages, rep, users read by stats.Get()
    ticks,                      \* ticks received from ticker.C so far
    \* what the run did to its collaborators
    scanErrs,       \* channel -> the error processChannel returned for it
    returnedAll,    \* user -> sum of the deltas of every processChannel return
    returnedOk,     \* user -> sum of the deltas processChannel returned without error
    processedOk,    \* sum of the counts processChannel returned without error
    chanErrPosts,   \* channel -> error notifications posted naming it
    userErrPosts,   \* user -> error notifications posted naming them
    summaries,      \* the summary notifications posted
    progressPosts,  \* number of progress updates posted
    upserts,        \* user -> the amounts insertUpdateUserRep was called with
    failed,         \* users whose insertUpdateUserRep returned an error
    calls,          \* channel -> number of calls of processChannel for it
    store,          \* user -> points the reputation store has taken in
    sleeps,         \* one-second waits made at the end of the channel loop's body
    \* reprocessStats, method by method
    mu,             \* stats.mu: whether a writer holds it, and how many readers
    addPc,          \* where the goroutine calling Add or SetUsers is in the method
    addArgs,        \* the arguments of that call
    getPc,          \* where the goroutine calling Get is in the method
    complete        \* the values of *stats after each completed Add or SetUsers

callerVars == <<ctxDone, conf>>

scanVars ==
    <<spc, channelID, processed, chanChanges, beforeID, messages, msgIdx, msg, scanErr,
      inspected>>

orchVars ==
    <<pc, channels, chIdx, stats, repChanges, channelErrors, userErrors, uniqueUsers,
      pending, stopChan, wg, retErr>>

reporterVars ==
    <<rpc, currentIntervalIdx, updatesAtCurrentInterval, ticker, snapshot, ticks>>

logVars ==
    <<scanErrs, returnedAll, returnedOk, processedOk, chanErrPosts, userErrPosts,
      summaries, progressPosts, upserts, failed, calls, store, sleeps>>

lockVars == <<mu, addPc, addArgs, getPc, complete>>

vars == <<callerVars, scanVars, orchVars, reporterVars, logVars, lockVars>>

\* ---------------------------------------------------------- processChannel
\* The pages BotSession.ChannelMessages(channelID, limit, before, 0, 0) can
\* return without error for a channel holding the messages ids: at most limit
\* messages, newest first, all older than before when before is given.
ChannelMessages(ids, limit, before) ==
    LET older == IF before = 0 THEN ids ELSE {i \in ids : i < before}
        lens == 0..(IF limit < Cardinality(older) THEN limit ELSE Cardinality(older))
    IN  {s \in UNION {[1..n -> older] : n \in lens} :
            \A i \in 1..(Len(s) - 1) : s[i] > s[i + 1]}

\* processChannel is entered: its locals are initialised
EnterProcessChannel(ch) ==
    /\ spc' = "select"
    /\ channelID' = ch
    /\ processed' = 0
    /\ chanChanges' = EmptyMap
    /\ beforeID' = 0
    /\ messages' = <<>>
    /\ msgIdx' = 0
    /\ msg' = NoMsg
    /\ scanErr' = "nil"
    /\ inspected' = <<>>

\* return processed, repChanges, err
ScanReturn(err) ==
    /\ spc' = "returned"
    /\ scanErr' = err

\* CtxDone for a select that never takes the case of ctx.Done()
CtxDoneNever(done) == FALSE

\* case <-ctx.Done() is ready: a receive from a closed channel does not block
CtxDone(done) == done

\* select { case <-ctx.Done(): return ...; default: }
CheckCtx ==
    /\ spc = "select"
    /\ IF CtxDone(ctxDone)
       THEN ScanReturn("context canceled")
       ELSE spc' = "fetch" /\ scanErr' = scanErr
    /\ UNCHANGED <<orchVars, reporterVars, logVars>>
    /\ UNCHANGED <<ctxDone, conf, channelID, processed, chanChanges, beforeID,
                   messages, msgIdx, msg>>
    /\ UNCHANGED lockVars
    /\ UNCHANGED inspected

\* messages, err = ChannelMessages(...); if err != nil { return ... }
FetchError ==
    /\ spc = "fetch"
    /\ ScanReturn("fetch failed")
    /\ UNCHANGED <<orchVars, reporterVars, logVars>>
    /\ UNCHANGED <<ctxDone, conf, channelID, processed, chanChanges, beforeID,
                   messages, msgIdx, msg>>
    /\ UNCHANGED lockVars
    /\ UNCHANGED inspected

\* messages, err = ChannelMessages(...) without error;
\* if len(messages) == 0 { break } ... return processed, repChanges, nil
FetchPage(ids) ==
    /\ spc = "fetch"
    /\ \E page \in ChannelMessages(ids, PageLimit, beforeID) :
        /\ messages' = page
        /\ IF Len(page) = 0
           THEN ScanReturn("nil") /\ msgIdx' = msgIdx
           ELSE spc' = "range" /\ msgIdx' = 1 /\ scanErr' = scanErr
    /\ UNCHANGED <<orchVars, reporterVars, logVars>>
    /\ UNCHANGED <<ctxDone, conf, channelID, processed, chanChanges, beforeID, msg>>
    /\ UNCHANGED lockVars
    /\ UNCHANGED inspected

\* Grant without the comparison with the author
GrantNoSelfCheck(changes, userID, m) ==
    IF userID # 0 THEN MapAdd(changes, userID, 1) ELSE changes

\* repChanges[userID]++ guarded by userID != 0 && userID != msg.Author.ID
Grant(changes, userID, m) ==
    IF userID # 0 /\ userID # m.Author.ID THEN MapAdd(changes, userID, 1) ELSE changes

\* MatchPatterns without the test of conf.DisableThanksDetection
MatchPatternsAlways(changes, m, c) ==
    LET give == FindStringSubmatch("giverep", m.Content)
        thanks == FindStringSubmatch("thanks", m.Content)
    IN  IF give # <<>> THEN Grant(changes, give[2], m)
        ELSE IF thanks # <<>> THEN Grant(changes, thanks[2], m)
        ELSE changes

\* MatchPatterns without the continue that ends the explicit-grant branch
MatchPatternsFallThrough(changes, m, c) ==
    LET give == FindStringSubmatch("giverep", m.Content)
        thanks == FindStringSubmatch("thanks", m.Content)
        afterGive == IF give # <<>> THEN Grant(changes, give[2], m) ELSE changes
    IN  IF ~c.DisableThanksDetection /\ thanks # <<>>
        THEN Grant(afterGive, thanks[2], m)
        ELSE afterGive

\* The pattern part of the loop body, for a counted message of a human.
MatchPatterns(changes, m, c) ==
    LET give == FindStringSubmatch("giverep", m.Content)
        thanks == FindStringSubmatch("thanks", m.Content)
    IN  IF give # <<>> THEN Grant(changes, give[2], m)
        ELSE IF ~c.DisableThanksDetection /\ thanks # <<>>
             THEN Grant(changes, thanks[2], m)
        ELSE changes

\* msg.Timestamp.Parse(): the parsed time, or an error
TimestampParse(ts) == [err |-> ~ts.valid, time |-> ts.time]

\* The range loop has a next message.
InRange == spc = "range" /\ msgIdx <= Len(messages)

\* One iteration of "for _, msg := range messages", for the message m: the
\* loop body up to its return or to the end of the iteration.
InspectMessage(m) ==
    /\ msg' = m
    /\ inspected' = Append(inspected, m.ID)
    /\ LET parsed == TimestampParse(m.Timestamp)
       IN  IF parsed.err
           THEN \* continue
                /\ spc' = "continue"
                /\ UNCHANGED <<processed, chanChanges, scanErr>>
           ELSE IF Before(parsed.time, fiveYearsAgo)
           THEN \* return processed, repChanges, nil
                /\ ScanReturn("nil")
                /\ UNCHANGED <<processed, chanChanges>>
           ELSE /\ spc' = "continue"
                /\ scanErr' = scanErr
                /\ processed' = processed + 1
                /\ chanChanges' =
                     IF m.Author.Bot THEN chanChanges
                     ELSE MatchPatterns(chanChanges, m, conf)
    /\ UNCHANGED <<orchVars, reporterVars, logVars>>
    /\ UNCHANGED <<ctxDone, conf, channelID, beforeID, messages, msgIdx>>
    /\ UNCHANGED lockVars

\* The iteration ends (continue, or the end of the body): the range loop
\* moves to the next message.
NextMessage ==
    /\ spc = "continue"
    /\ spc' = "range"
    /\ msgIdx' = msgIdx + 1
    /\ msg' = NoMsg
    /\ UNCHANGED <<orchVars, reporterVars, logVars>>
    /\ UNCHANGED <<ctxDone, conf, channelID, processed, chanChanges, beforeID,
                   messages, scanErr>>
    /\ UNCHANGED lockVars
    /\ UNCHANGED inspected

\* LastID for the identifier of the first message of the page
FirstID(page) == page[1]

\* messages[len(messages)-1].ID
LastID(page) == page[Len(page)]

\* The range loop is over: beforeID = messages[len(messages)-1].ID, then
\* time.Sleep(1000 * time.Millisecond) and the next iteration of the for loop.
NextPage ==
    /\ spc = "range"
    /\ msgIdx > Len(messages)
    /\ beforeID' = LastID(messages)
    /\ spc' = "select"
    /\ UNCHANGED <<orchVars, reporterVars, logVars>>
    /\ UNCHANGED <<ctxDone, conf, channelID, processed, chanChanges, messages,
                   msgIdx, msg, scanErr>>
    /\ UNCHANGED lockVars
    /\ UNCHANGED inspected

\* The caller cancels ctx.
Cancel ==
    /\ ~ctxDone
    /\ ctxDone' = TRUE
    /\ UNCHANGED <<conf, scanVars, orchVars, reporterVars, logVars>>
    /\ UNCHANGED lockVars

\* processChannel has returned to its caller: its frame is gone
LeaveProcessChannel ==
    /\ spc' = "idle"
    /\ channelID' = 0
    /\ processed' = 0
    /\ chanChanges' = EmptyMap
    /\ beforeID' = 0
    /\ messages' = <<>>
    /\ msgIdx' = 0
    /\ msg' = NoMsg
    /\ scanErr' = "nil"
    /\ inspected' = <<>>

\* ----------------------------------------------------------- reprocessStats
NewStats == [MessagesProcessed |-> 0, RepGiven |-> 0, UsersAffected |-> 0]

\* Add that also counts the reputation given as users affected
StatsAddCountingUsers(s, m, r) ==
    [s EXCEPT !.MessagesProcessed = @ + m, !.RepGiven = @ + r, !.UsersAffected = @ + r]

\* Add with = for +=
StatsAddOverwrite(s, m, r) ==
    [s EXCEPT !.MessagesProcessed = m, !.RepGiven = r]

\* (s *reprocessStats) Add(messages, rep), under mu.Lock
StatsAdd(s, m, r) ==
    [s EXCEPT !.MessagesProcessed = @ + m, !.RepGiven = @ + r]

\* (s *reprocessStats) SetUsers(count), under mu.Lock
StatsSetUsers(s, count) == [s EXCEPT !.UsersAffected = count]

\* (s *reprocessStats) Get(), under mu.RLock
StatsGet(s) ==
    [messages |-> s.MessagesProcessed, rep |-> s.RepGiven, users |-> s.UsersAffected]

NoSnapshot == [messages |-> 0, rep |-> 0, users |-> 0]

\* The methods statement by statement, with the RWMutex (SpecStats).
\* what these steps leave alone
nonStatsVars ==
    <<callerVars, scanVars, logVars, pc, channels, chIdx, repChanges, channelErrors,
      userErrors, uniqueUsers, pending, stopChan, wg, retErr, rpc,
      currentIntervalIdx, updatesAtCurrentInterval, ticker, ticks>>

\* s.mu.Lock() may return: no writer and no reader holds the lock
CanLock(m) == ~m.writer /\ m.readers = 0

\* Get without s.mu.RLock()
CanRLockAlways(m) == TRUE

\* s.mu.RLock() may return: no writer holds the lock
CanRLock(m) == ~m.writer

\* Add(messages, rep): s.mu.Lock()
AddLock(m, r) ==
    /\ addPc = "idle"
    /\ Len(complete) <= MaxUpdates
    /\ CanLock(mu)
    /\ mu' = [mu EXCEPT !.writer = TRUE]
    /\ addArgs' = [messages |-> m, rep |-> r, count |-> 0]
    /\ addPc' = "add.messages"
    /\ UNCHANGED <<stats, snapshot, getPc, complete, nonStatsVars>>

\* s.MessagesProcessed += messages
AddMessages ==
    /\ addPc = "add.messages"
    /\ stats' = [stats EXCEPT !.MessagesProcessed = @ + addArgs.messages]
    /\ addPc' = "add.rep"
    /\ UNCHANGED <<mu, addArgs, snapshot, getPc, complete, nonStatsVars>>

\* s.RepGiven += rep
AddRep ==
    /\ addPc = "add.rep"
    /\ stats' = [stats EXCEPT !.RepGiven = @ + addArgs.rep]
    /\ addPc' = "unlock"
    /\ UNCHANGED <<mu, addArgs, snapshot, getPc, complete, nonStatsVars>>

\* SetUsers(count): s.mu.Lock()
SetUsersLock(count) ==
    /\ addPc = "idle"
    /\ Len(complete) <= MaxUpdates
    /\ CanLock(mu)
    /\ mu' = [mu EXCEPT !.writer = TRUE]
    /\ addArgs' = [messages |-> 0, rep |-> 0, count |-> count]
    /\ addPc' = "set.users"
    /\ UNCHANGED <<stats, snapshot, getPc, complete, nonStatsVars>>

\* s.UsersAffected = count
SetUsersWrite ==
    /\ addPc = "set.users"
    /\ stats' = [stats EXCEPT !.UsersAffected = addArgs.count]
    /\ addPc' = "unlock"
    /\ UNCHANGED <<mu, addArgs, snapshot, getPc, complete, nonStatsVars>>

\* the deferred s.mu.Unlock() of Add and SetUsers: the update is complete
Unlock ==
    /\ addPc = "unlock"
    /\ mu' = [mu EXCEPT !.writer = FALSE]
    /\ complete' = Append(complete, stats)
    /\ addPc' = "idle"
    /\ UNCHANGED <<stats, addArgs, snapshot, getPc, nonStatsVars>>

\* Get(): s.mu.RLock()
GetRLock ==
    /\ getPc = "idle"
    /\ CanRLock(mu)
    /\ mu' = [mu EXCEPT !.readers = @ + 1]
    /\ getPc' = "get.messages"
    /\ UNCHANGED <<stats, snapshot, addPc, addArgs, complete, nonStatsVars>>

\* return s.MessagesProcessed, s.RepGiven, s.UsersAffected: the three reads
GetRead ==
    /\ \/ /\ getPc = "get.messages"
          /\ snapshot' = [snapshot EXCEPT !.messages = stats.MessagesProcessed]
          /\ getPc' = "get.rep"
       \/ /\ getPc = "get.rep"
          /\ snapshot' = [snapshot EXCEPT !.rep = stats.RepGiven]
          /\ getPc' = "get.users"
       \/ /\ getPc = "get.users"
          /\ snapshot' = [snapshot EXCEPT !.users = stats.UsersAffected]
          /\ getPc' = "runlock"
    /\ UNCHANGED <<stats, mu, addPc, addArgs, complete, nonStatsVars>>

\* the deferred s.mu.RUnlock(): Get returns the three values read
GetRUnlock ==
    /\ getPc = "runlock"
    /\ mu' = [mu EXCEPT !.readers = @ - 1]
    /\ getPc' = "idle"
    /\ UNCHANGED <<stats, snapshot, addPc, addArgs, complete, nonStatsVars>>

\* ------------------------------------------------------ sendPeriodicUpdates
\* AfterUpdate with > for >= in the comparison with the interval's count
AfterUpdateLate(idx, updates, tick) ==
    LET u == updates + 1
        currentInterval == updateIntervals[idx + 1]
    IN  IF /\ currentInterval.count # -1
           /\ u > currentInterval.count
           /\ idx < Len(updateIntervals) - 1
        THEN [idx |-> idx + 1, updates |-> 0,
              ticker |-> updateIntervals[idx + 2].duration]
        ELSE [idx |-> idx, updates |-> u, ticker |-> tick]

\* The bookkeeping after a post: updatesAtCurrentInterval++ and the move to
\* the next interval, with its new ticker.
AfterUpdate(idx, updates, tick) ==
    LET u == updates + 1
        currentInterval == updateIntervals[idx + 1]
    IN  IF /\ currentInterval.count # -1
           /\ u >= currentInterval.count
           /\ idx < Len(updateIntervals) - 1
        THEN [idx |-> idx + 1, updates |-> 0,
              ticker |-> updateIntervals[idx + 2].duration]
        ELSE [idx |-> idx, updates |-> u, ticker |-> tick]

\* case <-ticker.C: messages, rep, users := stats.Get()
Tick(maxTicks) ==
    /\ rpc = "select"
    /\ ticks < maxTicks
    /\ rpc' = "post"
    /\ ticks' = ticks + 1
    /\ snapshot' = StatsGet(stats)
    /\ UNCHANGED <<currentIntervalIdx, updatesAtCurrentInterval, ticker>>
    /\ UNCHANGED <<callerVars, scanVars, orchVars, logVars>>
    /\ UNCHANGED lockVars

\* ChannelMessageSend(channelID, updateMsg), whose failure is only logged,
\* and the rest of the case body.
Post ==
    /\ rpc = "post"
    /\ progressPosts' = progressPosts + 1
    /\ LET next == AfterUpdate(currentIntervalIdx, updatesAtCurrentInterval, ticker)
       IN  /\ currentIntervalIdx' = next.idx
           /\ updatesAtCurrentInterval' = next.updates
           /\ ticker' = next.ticker
    /\ rpc' = "select"
    /\ snapshot' = NoSnapshot
    /\ UNCHANGED ticks
    /\ UNCHANGED <<callerVars, scanVars, orchVars>>
    /\ UNCHANGED <<scanErrs, returnedAll, returnedOk, processedOk, chanErrPosts,
                   userErrPosts, summaries, upserts, failed, calls, store, sleeps>>
    /\ UNCHANGED lockVars

\* the goroutine returns without wg.Done()
WgDoneMissing(n) == n

\* wg.Done(), deferred in the goroutine that runs sendPeriodicUpdates
WgDone(n) == n - 1

\* case <-stopChan: return, then the deferred wg.Done()
ObserveStop ==
    /\ rpc = "select"
    /\ stopChan
    /\ rpc' = "done"
    /\ wg' = WgDone(wg)
    /\ UNCHANGED <<currentIntervalIdx, updatesAtCurrentInterval, ticker, snapshot, ticks>>
    /\ UNCHANGED <<pc, channels, chIdx, stats, repChanges, channelErrors, userErrors,
                   uniqueUsers, pending, stopChan, retErr>>
    /\ UNCHANGED <<callerVars, scanVars, logVars>>
    /\ UNCHANGED lockVars

\* -------------------------------------------------------- reprocessMessages
\* stopChan := make(chan struct{}); wg.Add(1); go func() { ... }():
\* sendPeriodicUpdates starts with its first ticker.
StartReporter ==
    /\ pc = "start"
    /\ pc' = "loop"
    /\ chIdx' = 1
    /\ channelErrors' = 0
    /\ stopChan' = FALSE
    /\ wg' = 1
    /\ rpc' = "select"
    /\ currentIntervalIdx' = 0
    /\ updatesAtCurrentInterval' = 0
    /\ ticker' = updateIntervals[1].duration
    /\ UNCHANGED <<snapshot, ticks>>
    /\ UNCHANGED <<channels, stats, repChanges, userErrors, uniqueUsers, pending, retErr>>
    /\ UNCHANGED <<callerVars, scanVars, logVars>>
    /\ UNCHANGED lockVars

\* the range loop over channels has a next channel
HasChannel == pc = "loop" /\ chIdx <= Len(channels)

\* if channel.Type != discordgo.ChannelTypeGuildText { continue }
SkipChannel ==
    /\ HasChannel
    /\ channels[chIdx].Type # ChannelTypeGuildText
    /\ chIdx' = chIdx + 1
    /\ UNCHANGED <<pc, channels, stats, repChanges, channelErrors, userErrors,
                   uniqueUsers, pending, stopChan, wg, retErr>>
    /\ UNCHANGED <<callerVars, scanVars, reporterVars, logVars>>
    /\ UNCHANGED lockVars

\* processChannel(ctx, channel.ID, fiveYearsAgo, conf) is called
CallProcessChannel ==
    /\ HasChannel
    /\ channels[chIdx].Type = ChannelTypeGuildText
    /\ pc' = "scan"
    /\ EnterProcessChannel(channels[chIdx].ID)
    /\ calls' = [calls EXCEPT ![channels[chIdx].ID] = @ + 1]
    /\ UNCHANGED <<channels, chIdx, stats, repChanges, channelErrors, userErrors,
                   uniqueUsers, pending, stopChan, wg, retErr>>
    /\ UNCHANGED <<scanErrs, returnedAll, returnedOk, processedOk, chanErrPosts,
                   userErrPosts, summaries, progressPosts, upserts, failed, store, sleeps>>
    /\ UNCHANGED <<callerVars, reporterVars>>
    /\ UNCHANGED lockVars

\* The pointwise sum of two tallies (for the record of what was returned).
Tally(a, b) ==
    [u \in DOMAIN a \cup DOMAIN b |->
        (IF u \in DOMAIN a THEN a[u] ELSE 0) + (IF u \in DOMAIN b THEN b[u] ELSE 0)]

\* processChannel returns processed, repChanges, err to reprocessMessages
RecordReturn ==
    /\ scanErrs' = (channelID :> scanErr) @@ scanErrs
    /\ returnedAll' = Tally(returnedAll, chanChanges)
    /\ returnedOk' = IF scanErr = "nil" THEN Tally(returnedOk, chanChanges) ELSE returnedOk
    /\ processedOk' = IF scanErr = "nil" THEN processedOk + processed ELSE processedOk

\* AfterFailedScan with break for continue
AfterFailedScanBreak(idx) == Len(channels) + 1

\* The position of the range loop over channels after the "continue" of a
\* failed scan at position idx.
AfterFailedScan(idx) == idx + 1

\* if err != nil { channelErrors++; sendErrorMessage(...); continue }
ScanFailed ==
    /\ pc = "scan"
    /\ spc = "returned"
    /\ scanErr # "nil"
    /\ RecordReturn
    /\ channelErrors' = channelErrors + 1
    /\ chanErrPosts' = [chanErrPosts EXCEPT ![channelID] = @ + 1]
    /\ chIdx' = AfterFailedScan(chIdx)
    /\ pc' = "loop"
    /\ LeaveProcessChannel
    /\ UNCHANGED <<channels, stats, repChanges, userErrors, uniqueUsers, pending,
                   stopChan, wg, retErr>>
    /\ UNCHANGED <<userErrPosts, summaries, progressPosts, upserts, failed, calls, store, sleeps>>
    /\ UNCHANGED <<callerVars, reporterVars>>
    /\ UNCHANGED lockVars

\* Aggregate with = for +=
AggregateOverwrite(total, changes) ==
    [u \in DOMAIN total \cup DOMAIN changes |->
        IF u \in DOMAIN changes THEN changes[u] ELSE total[u]]

\* for userID, amount := range changes { repChanges[userID] += amount }
Aggregate(total, changes) ==
    [u \in DOMAIN total \cup DOMAIN changes |-> Lookup(total, u) + Lookup(changes, u)]

\* err == nil: stats.Add(processed, repCount), the aggregation of changes
ScanSucceeded ==
    /\ pc = "scan"
    /\ spc = "returned"
    /\ scanErr = "nil"
    /\ RecordReturn
    /\ stats' = StatsAdd(stats, processed, MapSum(chanChanges))
    /\ repChanges' = Aggregate(repChanges, chanChanges)
    /\ pc' = "sleep"
    /\ LeaveProcessChannel
    /\ UNCHANGED <<channels, chIdx, channelErrors, userErrors, uniqueUsers, pending,
                   stopChan, wg, retErr>>
    /\ UNCHANGED <<chanErrPosts, userErrPosts, summaries, progressPosts, upserts,
                   failed, calls, store, sleeps>>
    /\ UNCHANGED <<callerVars, reporterVars>>
    /\ UNCHANGED lockVars

\* time.Sleep(1000 * time.Millisecond) at the end of the loop body
ChannelSleep ==
    /\ pc = "sleep"
    /\ pc' = "loop"
    /\ chIdx' = chIdx + 1
    /\ sleeps' = sleeps + 1
    /\ UNCHANGED <<channels, stats, repChanges, channelErrors, userErrors,
                   uniqueUsers, pending, stopChan, wg, retErr>>
    /\ UNCHANGED <<scanErrs, returnedAll, returnedOk, processedOk, chanErrPosts,
                   userErrPosts, summaries, progressPosts, upserts, failed, calls,
                   store>>
    /\ UNCHANGED <<callerVars, scanVars, reporterVars>>
    /\ UNCHANGED lockVars

\* LoopOver for a loop that is left while channels remain
LoopOverEarly(idx) == TRUE

\* the range loop over channels, at position idx, has no channel left
LoopOver(idx) == idx > Len(channels)

\* close(stopChan), once the range loop over channels is over
StopReporter ==
    /\ pc = "loop"
    /\ LoopOver(chIdx)
    /\ stopChan' = TRUE
    /\ pc' = "wait"
    /\ UNCHANGED <<channels, chIdx, stats, repChanges, channelErrors, userErrors,
                   uniqueUsers, pending, wg, retErr>>
    /\ UNCHANGED <<callerVars, scanVars, reporterVars, logVars>>
    /\ UNCHANGED lockVars

\* wg.Wait() left out
WaitSkipped == TRUE

\* wg.Wait() may return
WaitReturns == wg = 0

\* wg.Wait() returns; uniqueUsers := 0; userErrors := 0; the range loop over
\* repChanges begins
WaitDone ==
    /\ pc = "wait"
    /\ WaitReturns
    /\ pc' = "persist"
    /\ uniqueUsers' = 0
    /\ userErrors' = 0
    /\ pending' = DOMAIN repChanges
    /\ UNCHANGED <<channels, chIdx, stats, repChanges, channelErrors, stopChan, wg,
                   retErr>>
    /\ UNCHANGED <<callerVars, scanVars, reporterVars, logVars>>
    /\ UNCHANGED lockVars

\* AfterIteration with break for continue after a failed upsert
AfterIterationBreak(left, userID, ok) == IF ok THEN left \ {userID} ELSE {}

\* The keys the range loop over repChanges has left after the iteration for
\* userID, whether or not its upsert succeeded.
AfterIteration(left, userID, ok) == left \ {userID}

\* One iteration of "for userID, amount := range repChanges"; a Go map is
\* ranged over in any order. ok: whether insertUpdateUserRep returns no error.
PersistUser(userID, ok) ==
    /\ pc = "persist"
    /\ userID \in pending
    /\ LET amount == repChanges[userID]
       IN  IF amount = 0
           THEN /\ pending' = pending \ {userID}
                /\ UNCHANGED <<uniqueUsers, userErrors, upserts, failed, store,
                               userErrPosts>>
           ELSE /\ uniqueUsers' = uniqueUsers + 1
                /\ upserts' = [upserts EXCEPT ![userID] = Append(@, amount)]
                /\ pending' = AfterIteration(pending, userID, ok)
                /\ IF ok
                   THEN /\ store' = [store EXCEPT ![userID] = @ + amount]
                        /\ UNCHANGED <<userErrors, failed, userErrPosts>>
                   ELSE /\ userErrors' = userErrors + 1
                        /\ failed' = failed \cup {userID}
                        /\ userErrPosts' = [userErrPosts EXCEPT ![userID] = @ + 1]
                        /\ UNCHANGED store
    /\ UNCHANGED <<pc, channels, chIdx, stats, repChanges, channelErrors, stopChan,
                   wg, retErr>>
    /\ UNCHANGED <<scanErrs, returnedAll, returnedOk, processedOk, chanErrPosts,
                   summaries, progressPosts, calls, sleeps>>
    /\ UNCHANGED <<callerVars, scanVars, reporterVars>>
    /\ UNCHANGED lockVars

\* stats.SetUsers(uniqueUsers), once the range loop over repChanges is over
SetUsers ==
    /\ pc = "persist"
    /\ pending = {}
    /\ stats' = StatsSetUsers(stats, uniqueUsers)
    /\ pc' = "summary"
    /\ UNCHANGED <<channels, chIdx, repChanges, channelErrors, userErrors,
                   uniqueUsers, pending, stopChan, wg, retErr>>
    /\ UNCHANGED <<callerVars, scanVars, reporterVars, logVars>>
    /\ UNCHANGED lockVars

\* the error reprocessMessages returns beside stats
ReturnedError == "nil"

\* HadErrors with the user errors left out of the condition
HadErrorsChannelOnly(ce, ue) == ce > 0

\* channelErrors > 0 || userErrors > 0
HadErrors(ce, ue) == ce > 0 \/ ue > 0

\* if channelErrors > 0 || userErrors > 0 { sendErrorMessage(summary) };
\* return stats, nil
Summarize ==
    /\ pc = "summary"
    /\ summaries' =
         IF HadErrors(channelErrors, userErrors)
         THEN Append(summaries,
                     [channelErrors |-> channelErrors, userErrors |-> userErrors])
         ELSE summaries
    /\ retErr' = ReturnedError
    /\ pc' = "done"
    /\ UNCHANGED <<channels, chIdx, stats, repChanges, channelErrors, userErrors,
                   uniqueUsers, pending, stopChan, wg>>
    /\ UNCHANGED <<scanErrs, returnedAll, returnedOk, processedOk, chanErrPosts,
                   userErrPosts, progressPosts, upserts, failed, calls, store, sleeps>>
    /\ UNCHANGED <<callerVars, scanVars, reporterVars>>
    /\ UNCHANGED lockVars

\* ------------------------------------------------------------ initial states
\* the locals of reprocessMessages before its first statement has effect
InitOrchestrator ==
    /\ stats = NewStats
    /\ repChanges = EmptyMap
    /\ channelErrors = 0
    /\ userErrors = 0
    /\ uniqueUsers = 0
    /\ pending = {}
    /\ stopChan = FALSE
    /\ retErr = "none"

InitLog ==
    /\ scanErrs = EmptyMap
    /\ returnedAll = EmptyMap
    /\ returnedOk = EmptyMap
    /\ processedOk = 0
    /\ chanErrPosts = [c \in 1..MaxChannels |-> 0]
    /\ userErrPosts = [u \in Users |-> 0]
    /\ summaries = <<>>
    /\ progressPosts = 0
    /\ upserts = [u \in Users |-> <<>>]
    /\ failed = {}
    /\ store = [u \in Users |-> 0]
    /\ sleeps = 0

\* no method of reprocessStats is being executed
InitLock ==
    /\ mu = [writer |-> FALSE, readers |-> 0]
    /\ addPc = "idle"
    /\ addArgs = [messages |-> 0, rep |-> 0, count |-> 0]
    /\ getPc = "idle"
    /\ complete = <<NewStats>>

InitScanner(ch) ==
    /\ channelID = ch
    /\ processed = 0
    /\ chanChanges = EmptyMap
    /\ beforeID = 0
    /\ messages = <<>>
    /\ msgIdx = 0
    /\ msg = NoMsg
    /\ scanErr = "nil"
    /\ inspected = <<>>

InitReporterLocals ==
    /\ currentIntervalIdx = 0
    /\ updatesAtCurrentInterval = 0
    /\ ticker = updateIntervals[1].duration
    /\ snapshot = NoSnapshot
    /\ ticks = 0

\* gs.Channels: MaxChannels channels, channel i with identifier i, of any type
Guilds ==
    {s \in [1..MaxChannels -> [ID : 1..MaxChannels, Type : ChannelTypes]] :
        \A i \in 1..MaxChannels : s[i].ID = i}

\* --------------------------------------------- Spec: a run of reprocessMessages
\* The run has not left its channel loop. (Afterwards ctx is read only by
\* insertUpdateUserRep, which may fail or not whatever ctx is.) Within the
\* loop ctx is read only by the select of processChannel, so a cancellation at
\* any moment acts as one that arrives right before the next select: a run
\* takes its Cancel step there.
Scanning == pc \in {"start", "loop", "scan", "sleep"}

Init ==
    /\ ctxDone = FALSE
    /\ conf = [DisableThanksDetection |-> FALSE]
    /\ pc = "start"
    /\ channels \in Guilds
    /\ chIdx = 0
    /\ wg = 0
    /\ rpc = "idle"
    /\ spc = "idle"
    /\ calls = [c \in 1..MaxChannels |-> 0]
    /\ InitOrchestrator
    /\ InitScanner(0)
    /\ InitReporterLocals
    /\ InitLog
    /\ InitLock

Next ==
    \/ StartReporter
    \/ SkipChannel
    \/ CallProcessChannel
    \/ CheckCtx
    \/ FetchError
    \/ FetchPage(1..RunMaxID)
    \/ InRange /\ \E b \in RunMsgBodies : InspectMessage(Message(messages[msgIdx], b))
    \/ NextMessage
    \/ NextPage
    \/ ScanFailed
    \/ ScanSucceeded
    \/ ChannelSleep
    \/ StopReporter
    \/ WaitDone
    \/ \E userID \in Users, ok \in BOOLEAN : PersistUser(userID, ok)
    \/ SetUsers
    \/ Summarize
    \/ Tick(RunTicks)
    \/ Post
    \/ ObserveStop
    \/ Cancel /\ Scanning /\ spc = "select"

Spec == Init /\ [][Next]_vars

\* ------------------------------------------------- SpecScan: processChannel
\* One call of processChannel for channel 1, made by a run that is in its
\* channel loop.
InitScan ==
    /\ ctxDone = FALSE
    /\ conf \in [DisableThanksDetection : BOOLEAN]
    /\ pc = "scan"
    /\ channels = <<[ID |-> 1, Type |-> ChannelTypeGuildText]>>
    /\ chIdx = 1
    /\ wg = 1
    /\ rpc = "select"
    /\ spc = "select"
    /\ calls = [c \in 1..MaxChannels |-> IF c = 1 THEN 1 ELSE 0]
    /\ InitOrchestrator
    /\ InitScanner(1)
    /\ InitReporterLocals
    /\ InitLog
    /\ InitLock

NextScan ==
    \/ CheckCtx
    \/ FetchError
    \/ FetchPage(1..MaxID)
    \/ InRange /\ \E b \in MsgBodies : InspectMessage(Message(messages[msgIdx], b))
    \/ NextMessage
    \/ NextPage
    \/ Cancel /\ spc # "returned"

SpecScan == InitScan /\ [][NextScan]_vars

\* ------------------------------------- SpecPages: the paging of processChannel
\* One call of processChannel over a longer history, for its paging alone.
NextPages ==
    \/ CheckCtx
    \/ FetchError
    \/ FetchPage(1..PagesMaxID)
    \/ InRange /\ \E b \in PageMsgBodies : InspectMessage(Message(messages[msgIdx], b))
    \/ NextMessage
    \/ NextPage
    \/ Cancel /\ spc # "returned"

SpecPages == InitScan /\ [][NextPages]_vars

\* SpecPages for a call that keeps running: every fetch returns, with a page
\* or an error, and every sleep ends.
SpecPagesFair == SpecPages /\ WF_vars(NextPages)

\* ------------------------------------------- SpecReporter: sendPeriodicUpdates
\* The Reporter of a run over a guild without channels: it ticks until the
\* Orchestrator closes stopChan, which it may do at any moment.
InitReporter ==
    /\ ctxDone = FALSE
    /\ conf = [DisableThanksDetection |-> FALSE]
    /\ pc = "loop"
    /\ channels = <<>>
    /\ chIdx = 1
    /\ wg = 1
    /\ rpc = "select"
    /\ spc = "idle"
    /\ calls = [c \in 1..MaxChannels |-> 0]
    /\ InitOrchestrator
    /\ InitScanner(0)
    /\ InitReporterLocals
    /\ InitLog
    /\ InitLock

NextReporter ==
    \/ Tick(MaxTicks)
    \/ Post
    \/ ObserveStop
    \/ StopReporter
    \/ WaitDone

SpecReporter == InitReporter /\ [][NextReporter]_vars

\* SpecReporter under the scheduling the Go runtime gives: a post in flight
\* returns, a select with the closed stopChan ready takes that case sooner or
\* later (the choice among ready cases is uniformly random), and wg.Wait()
\* returns once the counter is zero.
SpecReporterFair ==
    /\ SpecReporter
    /\ WF_vars(Post)
    /\ SF_vars(ObserveStop)
    /\ WF_vars(WaitDone)

\* ----------------------------------------------- SpecStats: reprocessStats
\* The methods of *stats, called as a run calls them: Add and SetUsers by the
\* goroutine of reprocessMessages, Get by the goroutine of
\* sendPeriodicUpdates, under every interleaving of their statements.
NextStats ==
    \/ \E m \in 0..MaxAddend, r \in 0..MaxAddend : AddLock(m, r)
    \/ AddMessages
    \/ AddRep
    \/ \E count \in 0..MaxUser : SetUsersLock(count)
    \/ SetUsersWrite
    \/ Unlock
    \/ GetRLock
    \/ GetRead
    \/ GetRUnlock

SpecStats == InitReporter /\ [][NextStats]_vars

\* ==================================================================== claims
\* A step of the loop body of processChannel: msg' is the message inspected.
InspectStep == InRange /\ spc' # "range"

\* the message was counted by the loop body: its timestamp parses and is not
\* before the cutoff
Counted(m) == m.Timestamp.valid /\ m.Timestamp.time >= fiveYearsAgo

\* positions of the matches of pattern pat in the text of m
MatchesOf(pat, m) == {i \in 1..Len(m.Content) : m.Content[i].pat = pat}

\* the mention of the first match of pattern pat in the text of m
FirstMention(pat, m) ==
    m.Content[CHOOSE i \in MatchesOf(pat, m) : \A j \in MatchesOf(pat, m) : i <= j].id

\* the mention the message is matched by is its own author
SelfMatch(m) ==
    IF MatchesOf("giverep", m) # {} THEN FirstMention("giverep", m) = m.Author.ID
    ELSE /\ MatchesOf("thanks", m) # {}
         /\ FirstMention("thanks", m) = m.Author.ID

\* C1: a message whose timestamp is strictly before the cutoff is not added to
\* processed and changes no delta; at it processChannel returns at once with a
\* nil error, and once it has returned nothing more is inspected or fetched.
C1_CutoffStopsScan ==
    [][/\ (InspectStep /\ msg'.Timestamp.valid /\ msg'.Timestamp.time < fiveYearsAgo)
          => /\ processed' = processed
             /\ chanChanges' = chanChanges
             /\ spc' = "returned"
             /\ scanErr' = "nil"
             /\ msgIdx' = msgIdx /\ messages' = messages /\ beforeID' = beforeID
       /\ spc = "returned" => UNCHANGED scanVars]_vars

\* C1 witness: the scan returned at the first message of a page of two, which
\* is before the cutoff; the second message was not inspected.
C1_Witness ==
    /\ spc = "returned" /\ scanErr = "nil"
    /\ msg.Timestamp.valid /\ msg.Timestamp.time < fiveYearsAgo
    /\ msgIdx = 1 /\ Len(messages) = 2
    /\ processed = 0

\* the states after wg.Wait() has returned
AfterWait == {"persist", "summary", "done"}

\* C2: once wg.Wait() has returned, sendPeriodicUpdates has terminated and no
\* tick is taken and no progress update is posted any more: none is concurrent
\* with or later than an upsert, the summary or the return.
C2_NoPostAfterWait ==
    /\ [](pc \in AfterWait => rpc = "done")
    /\ [][(pc \in AfterWait) => UNCHANGED <<ticks, progressPosts>>]_vars

\* C2 witness: a finished run that posted a progress update and made an upsert.
C2_Witness ==
    /\ pc = "done"
    /\ progressPosts >= 1
    /\ \E u \in Users : upserts[u] # <<>>

\* the wait the claim gives for tick k, in seconds
ExpectedWait(k) ==
    IF k <= 5 THEN 10 ELSE IF k <= 10 THEN 60 ELSE IF k <= 15 THEN 3600 ELSE 86400

\* C3: the ticker whose tick number k is received runs at 10 s for k in 1..5,
\* 1 min for k in 6..10, 1 h for k in 11..15 and 24 h afterwards; the interval
\* level moves forward by one step or stays.
C3_IntervalSchedule ==
    /\ [](rpc = "post" => ticker = ExpectedWait(ticks))
    /\ [][(currentIntervalIdx' \in {currentIntervalIdx, currentIntervalIdx + 1})]_vars

\* C3 witness: tick 17, received from the 24-hour ticker, before stopChan is
\* closed.
C3_Witness ==
    /\ rpc = "post" /\ ticks = 17 /\ ticker = 86400
    /\ currentIntervalIdx = 3
    /\ ~stopChan

\* the channels whose scan returned an error
Erred == {c \in DOMAIN scanErrs : scanErrs[c] # "nil"}

\* the channel loop is over
ChannelsDone == pc \in {"wait", "persist", "summary", "done"}

\* C4: every scan error adds one to channelErrors and posts one notification
\* naming its channel; every text channel is still scanned exactly once, the
\* run is never stuck before its end, and at the end the upsert was made with
\* the summed deltas of the channels that scanned without error.
C4_ChannelErrorNotFatal ==
    /\ channelErrors = Cardinality(Erred)
    /\ \A c \in 1..MaxChannels : chanErrPosts[c] = (IF c \in Erred THEN 1 ELSE 0)
    /\ \A c \in 1..MaxChannels : calls[c] <= 1
    /\ ChannelsDone =>
         \A i \in 1..Len(channels) :
            calls[channels[i].ID] =
               (IF channels[i].Type = ChannelTypeGuildText THEN 1 ELSE 0)
    /\ pc # "done" => ENABLED Next
    /\ pc = "done" =>
         \A u \in Users :
            upserts[u] = (IF u \in DOMAIN returnedOk /\ returnedOk[u] # 0
                          THEN <<returnedOk[u]>> ELSE <<>>)

\* C4 witness: the scan of channel 1 failed, channel 2 was scanned without
\* error after it and its delta reached the store.
C4_Witness ==
    /\ pc = "done"
    /\ DOMAIN scanErrs = {1, 2}
    /\ scanErrs[1] = "fetch failed" /\ scanErrs[2] = "nil"
    /\ channelErrors = 1
    /\ \E u \in Users : store[u] > 0

\* C5 (as claimed): after a scan has returned the cancellation error no later
\* channel is scanned, and the run returns an error.
C5_CancellationAborts ==
    \A c \in DOMAIN scanErrs :
        scanErrs[c] = "context canceled" =>
            /\ \A d \in 1..MaxChannels : d > c => calls[d] = 0
            /\ pc = "done" => retErr # "nil"

\* C6 (as claimed): when all channels are scanned, the aggregated delta of
\* every user is the sum of the deltas of all processChannel returns.
C6_SumOfAllReturns ==
    ChannelsDone =>
        \A u \in Users : Lookup(repChanges, u) = Lookup(returnedAll, u)

\* C6 (amended): when all channels are scanned, the aggregated delta of every
\* user is the sum of the deltas processChannel returned with a nil error.
C6_SumOfOkReturns ==
    ChannelsDone =>
        \A u \in Users : Lookup(repChanges, u) = Lookup(returnedOk, u)

\* C6 witness: two channels each granted to the same user.
C6_Witness ==
    /\ ChannelsDone
    /\ DOMAIN scanErrs = {1, 2}
    /\ \E u \in Users : Lookup(repChanges, u) = 2

\* C7: a message matched by a mention of its own author changes no delta,
\* for either pattern, and no message raises the delta of its author.
C7_NoSelfGrant ==
    [][InspectStep =>
         /\ SelfMatch(msg') => chanChanges' = chanChanges
         /\ \A u \in Users :
               Lookup(chanChanges', u) > Lookup(chanChanges, u) => msg'.Author.ID # u]_vars

\* C7 witness: a counted message of a human that thanks its own author, with
\* thanks detection on, after an earlier grant.
C7_Witness ==
    /\ spc = "continue"
    /\ ~conf.DisableThanksDetection
    /\ Counted(msg) /\ ~msg.Author.Bot
    /\ msg.Content = <<[pat |-> "thanks", id |-> msg.Author.ID]>>
    /\ chanChanges # EmptyMap

\* the delta after message m when only the explicit pattern grants
ExplicitOnly(changes, m) ==
    IF /\ Counted(m) /\ ~m.Author.Bot
       /\ MatchesOf("giverep", m) # {}
       /\ FirstMention("giverep", m) \notin {0, m.Author.ID}
    THEN MapAdd(changes, FirstMention("giverep", m), 1)
    ELSE changes

\* C8: with DisableThanksDetection set, every message changes the delta as
\* its explicit-grant match alone does; a message matching only the thanks
\* pattern changes nothing.
C8_ThanksDisabled ==
    [][(InspectStep /\ conf.DisableThanksDetection)
         => chanChanges' = ExplicitOnly(chanChanges, msg')]_vars

\* C8 witness: with the flag set, after an explicit grant, a counted message
\* of a human that only thanks another user.
C8_Witness ==
    /\ spc = "continue"
    /\ conf.DisableThanksDetection
    /\ Counted(msg) /\ ~msg.Author.Bot
    /\ MatchesOf("giverep", msg) = {} /\ MatchesOf("thanks", msg) # {}
    /\ FirstMention("thanks", msg) \notin {0, msg.Author.ID}
    /\ chanChanges # EmptyMap

\* the persistence loop is over
PersistDone == pc \in {"summary", "done"}

\* C9: insertUpdateUserRep is called at most once per user, only for a user
\* with a non-zero aggregated delta and with that delta; when the loop is over
\* it was called for every such user, whatever failed; every failure adds one
\* to userErrors and posts one notification.
C9_UpsertOncePerUser ==
    /\ \A u \in Users :
          /\ Len(upserts[u]) <= 1
          /\ upserts[u] # <<>> =>
                (Lookup(repChanges, u) # 0 /\ upserts[u][1] = Lookup(repChanges, u))
          /\ (PersistDone /\ Lookup(repChanges, u) # 0) => Len(upserts[u]) = 1
          /\ userErrPosts[u] = (IF u \in failed THEN 1 ELSE 0)
    /\ userErrors = Cardinality(failed)

\* C9 witness: the loop is over, one upsert failed and another succeeded.
C9_Witness ==
    /\ PersistDone
    /\ failed # {}
    /\ \E u \in Users \ failed : store[u] > 0

\* the users whose aggregated delta was persisted
Updated == {u \in Users : upserts[u] # <<>> /\ u \notin failed}

\* C10 (as claimed): the users-affected count of the returned stats is the
\* number of users whose change was persisted.
C10_UsersAffectedCountsUpdated ==
    pc = "done" => stats.UsersAffected = Cardinality(Updated)

\* C11: at most one summary is posted, and only when the run is over, after
\* the last upsert attempt; at the end of a run there is exactly one when an
\* error notification was posted for a channel or a user, carrying the numbers
\* of the notifications posted for channels and for users, and none otherwise.
C11_SummaryOnceWithCounts ==
    /\ [](/\ Len(summaries) <= 1
          /\ summaries # <<>> => (pc = "done" /\ pending = {})
          /\ pc = "done" =>
               IF MapSum(chanErrPosts) > 0 \/ MapSum(userErrPosts) > 0
               THEN summaries = <<[channelErrors |-> MapSum(chanErrPosts),
                                   userErrors |-> MapSum(userErrPosts)]>>
               ELSE summaries = <<>>)
    /\ [][(summaries # <<>>) => upserts' = upserts]_vars

\* C11 witness: a run ended with one failed channel and one failed upsert, and
\* its summary carries both counts.
C11_Witness ==
    /\ pc = "done"
    /\ summaries = <<[channelErrors |-> 1, userErrors |-> 1]>>
    /\ MapSum(chanErrPosts) = 1 /\ MapSum(userErrPosts) = 1

\* the phase of the pipeline a position of reprocessMessages belongs to
Phase(p) ==
    CASE p = "start" -> 0
      [] p \in {"loop", "scan", "sleep"} -> 1
      [] p = "wait" -> 2
      [] p = "persist" -> 3
      [] p = "summary" -> 4
      [] p = "done" -> 5

\* the identifiers of the text channels of the guild
TextChannels ==
    {channels[i].ID : i \in {j \in 1..Len(channels) :
                                channels[j].Type = ChannelTypeGuildText}}

\* every text channel was scanned and its scan has returned
AllScansReturned ==
    /\ spc = "idle"
    /\ \A c \in TextChannels : calls[c] = 1 /\ c \in DOMAIN scanErrs

\* C12: the run never goes back to an earlier phase; a channel scan starts only
\* while the Reporter runs, before the stop signal and before any upsert; the
\* stop signal is raised only when the scan of every text channel has returned;
\* an upsert is attempted only when every scan has returned and the Reporter
\* has terminated.
C12_LinearPipeline ==
    [][/\ Phase(pc') >= Phase(pc)
       /\ (calls' # calls) =>
             /\ rpc \in {"select", "post"}
             /\ ~stopChan
             /\ \A u \in Users : upserts[u] = <<>>
       /\ (stopChan' /\ ~stopChan) => AllScansReturned
       /\ (upserts' # upserts) =>
             (AllScansReturned /\ stopChan /\ rpc = "done")]_vars

\* C12 witness: in the middle of persistence, after two channel scans and a
\* progress update: one upsert made, another still to come.
C12_Witness ==
    /\ pc = "persist"
    /\ TextChannels = {1, 2}
    /\ progressPosts >= 1
    /\ \E u \in Users : upserts[u] # <<>>
    /\ pending # {}

\* C13: once stopChan is closed, whatever the interval level and whether the
\* Reporter waits in its select or has a post in flight, sendPeriodicUpdates
\* returns and wg.Wait() returns: the run reaches persistence.
C13_StopHandshake == stopChan ~> (rpc = "done" /\ wg = 0 /\ pc = "persist")

\* C13 witness: the Reporter, at the 24-hour level after its 16th update, has
\* observed the stop signal and the run has reached persistence.
C13_Witness ==
    /\ stopChan /\ rpc = "done" /\ pc = "persist"
    /\ currentIntervalIdx = 3 /\ ticker = 86400
    /\ ticks = 16

\* C14: a page is fetched only right after a check that found ctx not
\* cancelled, the first page included, and every check serves one fetch; a
\* check that finds ctx cancelled returns processed and the delta as they are,
\* with the cancellation error, and nothing is fetched afterwards; between two
\* checks a cancellation changes nothing of the scan.
C14_CancelCheckedPerPage ==
    [][/\ (spc' = "fetch" /\ spc # "fetch") => (spc = "select" /\ ~ctxDone)
       /\ (spc = "fetch" /\ spc' = "fetch") => UNCHANGED scanVars
       /\ (spc = "select" /\ ctxDone /\ spc' # "select") =>
             /\ spc' = "returned" /\ scanErr' = "context canceled"
             /\ UNCHANGED <<processed, chanChanges, beforeID, messages>>
       /\ (spc = "returned") => UNCHANGED scanVars
       /\ (spc \in {"fetch", "range", "continue"}) => scanErr' # "context canceled"
       /\ (ctxDone' /\ ~ctxDone) => UNCHANGED scanVars]_vars

\* C14 witness: cancelled at the check before the second page, the scan has
\* returned the count and the delta of the first page with the cancellation
\* error.
C14_Witness ==
    /\ spc = "returned" /\ scanErr = "context canceled"
    /\ processed >= 1 /\ chanChanges # EmptyMap
    /\ beforeID # 0

\* the channel scans that have ended
ScansEnded == Cardinality(DOMAIN scanErrs)

\* C15 (as claimed): when a channel scan starts, every scan that ended before
\* it was followed by the one-second wait of the channel loop.
C15_WaitBetweenScans ==
    [][(calls' # calls) => sleeps = ScansEnded]_vars

\* the snapshots of the values *stats had after a whole number of updates
CompleteSnapshots == {StatsGet(complete[i]) : i \in 1..Len(complete)}

\* C16: the three values a Get has read are those *stats had after some whole
\* number of completed calls of Add and SetUsers, never the values in the
\* middle of one, under every interleaving of the statements of the methods.
C16_SnapshotAtomic ==
    getPc \in {"runlock", "idle"} => snapshot \in CompleteSnapshots

\* C16 witness: a Get has read its three values after two calls of Add that
\* changed the two counters differently, and it read the values after both.
C16_Witness ==
    /\ getPc = "runlock"
    /\ Len(complete) = 3
    /\ snapshot = [messages |-> 2, rep |-> 1, users |-> 0]

\* a step that fetches a page: ChannelMessages returns, with or without error
FetchStep == spc = "fetch" /\ spc' # "fetch"

\* C17: processChannel returns; its first fetch is made with cursor 0 (none)
\* and every later one with the identifier of the last message of the page
\* processed before it; a fetch that returns an empty page ends the scan with
\* a nil error, any other page is ranged over; no message is taken up by the
\* loop body twice.
C17_PaginationTerminates ==
    /\ <>(spc = "returned")
    /\ [](\A i, j \in 1..Len(inspected) : i # j => inspected[i] # inspected[j])
    /\ [][FetchStep =>
            /\ beforeID = (IF messages = <<>> THEN 0 ELSE messages[Len(messages)])
            /\ (spc' = "returned" /\ scanErr' # "fetch failed") =>
                   (messages' = <<>> /\ scanErr' = "nil")
            /\ (spc' = "range") => (messages' # <<>> /\ msgIdx' = 1)]_vars

\* C17 witness: the whole history, messages 3, 2 and 1, more than one full
\* page, was inspected in order and the fetch with cursor 1 returned the empty
\* page that ended the scan.
C17_Witness ==
    /\ spc = "returned" /\ scanErr = "nil"
    /\ inspected = <<3, 2, 1>>
    /\ beforeID = 1
    /\ messages = <<>>

\* C18: a message leaves the delta as it is or adds exactly 1 to the delta of
\* exactly one user; a message the explicit pattern matches changes the delta
\* as that match alone does, so when its mention is the author or 0 nothing is
\* granted, whatever the thanks pattern would match.
C18_OneGrantPerMessage ==
    [][InspectStep =>
         /\ \/ chanChanges' = chanChanges
            \/ \E u \in Users : chanChanges' = MapAdd(chanChanges, u, 1)
         /\ (MatchesOf("giverep", msg') # {}) =>
               chanChanges' = ExplicitOnly(chanChanges, msg')]_vars

\* C18 witness: with thanks detection on, a counted message of a human whose
\* explicit grant names its author and which also thanks another user: no
\* delta was changed.
C18_Witness ==
    /\ spc = "continue"
    /\ ~conf.DisableThanksDetection
    /\ Counted(msg) /\ ~msg.Author.Bot
    /\ Len(msg.Content) = 2
    /\ msg.Content[1] = [pat |-> "giverep", id |-> msg.Author.ID]
    /\ msg.Content[2].pat = "thanks" /\ msg.Content[2].id \notin {0, msg.Author.ID}
    /\ chanChanges = EmptyMap /\ processed = 1

\* C19: the users-affected counter of *stats is written only when
\* sendPeriodicUpdates has returned, so the snapshot of every progress update
\* carries 0 users affected.
C19_ProgressReportsNoUsers ==
    /\ [](rpc = "post" => snapshot.users = 0)
    /\ [][/\ (stats'.UsersAffected # stats.UsersAffected) => rpc = "done"
          /\ (pc = "persist" /\ pc' = "summary") => rpc = "done"]_vars

\* C19 witness: a progress update is being posted while a user has an
\* aggregated delta; it reports reputation given and 0 users affected.
C19_Witness ==
    /\ rpc = "post"
    /\ \E u \in Users : Lookup(repChanges, u) >= 1
    /\ snapshot.rep >= 1
    /\ snapshot.users = 0

\* C20: outside a channel scan, the reputation-given counter of *stats is the
\* sum of the aggregated delta and the messages-processed counter is the sum
\* of the counts of the scans that returned no error; the step that handles a
\* scan error changes neither *stats nor the aggregated delta.
C20_StatsMatchAggregate ==
    /\ [](pc # "scan" =>
             /\ stats.RepGiven = MapSum(repChanges)
             /\ stats.MessagesProcessed = processedOk)
    /\ [][(pc = "scan" /\ pc' # "scan" /\ scanErr # "nil") =>
             UNCHANGED <<stats, repChanges>>]_vars

\* C20 witness: scanning is over; one scan returned an error together with a
\* count and a delta, another returned without error, and only the latter is
\* in the counters.
C20_Witness ==
    /\ pc = "wait"
    /\ Erred # {}
    /\ \E u \in Users : Lookup(returnedAll, u) > Lookup(returnedOk, u)
    /\ stats.RepGiven = 1 /\ stats.MessagesProcessed = 1

====
